---- MODULE Spec2Model ----
(***************************************************************************)
(* Causally ordered reliable multicast of chat_process.py: every process   *)
(* is a ChatProcess object with its four threads (user_input_handler,      *)
(* incoming_message_handler, ack_handler, message_queue_handler).          *)
(***************************************************************************)
EXTENDS Integers, Sequences, FiniteSets, TLC

\* The process ids, the indices of config.config['hosts'].
Procs == {0, 1, 2}

\* The number of lines typed on all consoles together.
MaxInputs == 2

\* The number of packets a process's queue holds at a time.
MaxQueue == 2

\* The number of times the timers of ack_handler go off in a bounded run.
MaxTicks == 1

\* No bound on the ticks.
Unlimited == 0 - 1

\* The outcomes of random.random(), in quarters: below, at and above one half.
RandomDraws == {1, 2, 3}

VARIABLES
    drop_rate,           \* self.drop_rate, in quarters
    my_timestamp,        \* self.my_timestamp, a vector indexed by process id
    message_id_counter,  \* self.message_id_counter
    has_received,        \* self.has_received, the set of its keys
    has_acknowledged,    \* self.has_acknowledged, the set of its keys
    unack_messages,      \* self.unack_messages
    holdback_queue,      \* self.holdback_queue
    queue,               \* self.queue, the packets waiting for their send time
    stdin,               \* the lines not yet read from sys.stdin
    multicasting,        \* where user_input_handler stands inside multicast
    ticks,               \* the ticks of ack_handler left to the run, or Unlimited
    mutex,               \* self.mutex: the thread that holds it, or Free
    scanned,             \* new_unack_messages of an ack_handler inside its with block
    delivered,           \* history: the calls of deliver, in order
    seen,                \* history: how many calls of deliver preceded each line read
    last                 \* history: the handler that ran last and what it sent

vars == <<drop_rate, my_timestamp, message_id_counter, has_received, has_acknowledged,
          unack_messages, holdback_queue, queue, stdin, multicasting, ticks, delivered, seen,
          mutex, scanned, last>>

num_processes == Cardinality(Procs)

\* The payload of an acknowledgement, the empty string.
NoMessage == <<>>

\* No thread holds self.mutex.
Free == "free"

\* ack_handler has not been through the loop of its with block.
NotScanned == [done |-> FALSE, new |-> <<>>]

\* user_input_handler waits for a line.
Idle == [line |-> NoMessage, next |-> num_processes]

\* The lines typed at process p. The code never looks into a payload, so each
\* line is a token of its own: the n-th line typed at p.
Line(p, n) == <<p, n>>

RECURSIVE Lines(_, _)
Lines(p, n) == IF n = 0 THEN <<>> ELSE Append(Lines(p, n - 1), Line(p, n))

RECURSIVE Sum(_, _)
Sum(f, S) == IF S = {} THEN 0 ELSE LET x == CHOOSE y \in S : TRUE IN f[x] + Sum(f, S \ {x})

\* The wire codec: the flat field list and the address it is sent to.
pack_message(sender, msg_id, is_ack, timestamp, message, destination) ==
    [sender |-> sender, msg_id |-> msg_id, is_ack |-> is_ack,
     timestamp |-> timestamp, message |-> message, dest |-> destination]

unpack_message(data) ==
    <<data.sender, data.msg_id, data.is_ack, data.timestamp, data.message>>

\* What a handler did: its name, its process and the packets it handed to
\* unicast_send (dropped or not).
Did(op, p, sent) == [op |-> op, p |-> p, sent |-> sent]

\* The outcomes of the drop test of unicast_send at p, one for each draw.
DropTests(p) == {r <= drop_rate[p] : r \in RandomDraws}

\* A send that enqueues whatever the drop test says.
enqueue_always(q, packet, drop) == q \cup {packet}

\* unicast_send from its drop test on: the packets of q after one call whose
\* drop test came out as drop.
enqueue(q, packet, drop) == IF drop THEN q ELSE q \cup {packet}

\* A release test that leaves out the indices of the other processes.
should_remove_sender_only(V, entry) == entry[2][entry[1]] = V[entry[1]] + 1

\* A release test whose cross-index comparison is off by one.
should_remove_cross_off_by_one(V, entry) ==
    \A i \in DOMAIN entry[2] :
        IF i = entry[1]
        THEN entry[2][i] = V[i] + 1
        ELSE entry[2][i] <= V[i] + 1

\* A release test that takes any later message of the sender for the next.
should_remove_any_later(V, entry) ==
    \A i \in DOMAIN entry[2] :
        IF i = entry[1]
        THEN entry[2][i] >= V[i] + 1
        ELSE entry[2][i] <= V[i]

\* A release test that lets pass what the sender's index has reached already.
should_remove_up_to(V, entry) ==
    \A i \in DOMAIN entry[2] :
        IF i = entry[1]
        THEN entry[2][i] <= V[i] + 1
        ELSE entry[2][i] <= V[i]

\* The release test of update_holdback_queue for one entry (sender, v, message).
should_remove(V, entry) ==
    \A i \in DOMAIN entry[2] :
        IF i = entry[1]
        THEN entry[2][i] = V[i] + 1
        ELSE entry[2][i] <= V[i]

\* A loop over removed that takes over the vector of the message delivered.
RECURSIVE deliver_removed_adopting(_, _, _, _)
deliver_removed_adopting(V, removed, log, trigger) ==
    IF removed = <<>>
    THEN [ts |-> V, out |-> log]
    ELSE LET e == Head(removed)
         IN deliver_removed_adopting(e[2], Tail(removed),
                                     Append(log, [sender |-> e[1], message |-> e[3],
                                                  v |-> e[2], at |-> V, trigger |-> trigger]),
                                     trigger)

\* The loop over removed: each entry increments the sender's index and is delivered.
RECURSIVE deliver_removed(_, _, _, _)
deliver_removed(V, removed, log, trigger) ==
    IF removed = <<>>
    THEN [ts |-> V, out |-> log]
    ELSE LET e == Head(removed)
         IN deliver_removed([V EXCEPT ![e[1]] = V[e[1]] + 1], Tail(removed),
                            Append(log, [sender |-> e[1], message |-> e[3], v |-> e[2],
                                         at |-> V, trigger |-> trigger]),
                            trigger)

\* An update_holdback_queue that makes one pass only.
update_holdback_queue_once(V, hq, log, trigger) ==
    LET new_holdback_queue == SelectSeq(hq, LAMBDA e : ~should_remove(V, e))
        removed == SelectSeq(hq, LAMBDA e : should_remove(V, e))
        r == deliver_removed(V, removed, log, trigger)
    IN [ts |-> r.ts, hq |-> new_holdback_queue, out |-> r.out]

\* update_holdback_queue: passes over the holdback queue until one removes nothing.
RECURSIVE update_holdback_queue(_, _, _, _)
update_holdback_queue(V, hq, log, trigger) ==
    LET new_holdback_queue == SelectSeq(hq, LAMBDA e : ~should_remove(V, e))
        removed == SelectSeq(hq, LAMBDA e : should_remove(V, e))
        r == deliver_removed(V, removed, log, trigger)
    IN IF Len(removed) = 0
       THEN [ts |-> V, hq |-> new_holdback_queue, out |-> log]
       ELSE update_holdback_queue(r.ts, new_holdback_queue, r.out, trigger)

InitState(rate, n, t) ==
    /\ drop_rate = [p \in Procs |-> rate]
    /\ my_timestamp = [p \in Procs |-> [i \in Procs |-> 0]]
    /\ message_id_counter = [p \in Procs |-> 0]
    /\ has_received = [p \in Procs |-> {}]
    /\ has_acknowledged = [p \in Procs |-> {}]
    /\ unack_messages = [p \in Procs |-> <<>>]
    /\ holdback_queue = [p \in Procs |-> <<>>]
    /\ queue = [p \in Procs |-> {}]
    /\ stdin = [p \in Procs |-> Lines(p, n[p])]
    /\ multicasting = [p \in Procs |-> Idle]
    /\ ticks = t
    /\ mutex = [p \in Procs |-> Free]
    /\ scanned = [p \in Procs |-> NotScanned]
    /\ delivered = [p \in Procs |-> <<>>]
    /\ seen = [p \in Procs |-> <<>>]
    /\ last = Did("init", 0, {})

\* The consoles of a run: MaxInputs lines, typed at processes 0 and 1.
Scripts ==
    {n \in [Procs -> 0..MaxInputs] : Sum(n, Procs) = MaxInputs /\ n[2] = 0 /\ n[0] >= n[1]}

\* Processes started without fault injection (drop rate 0).
Init == \E n \in Scripts : InitState(0, n, MaxTicks)

\* No step makes a queue grow beyond MaxQueue.
QueueBound(q) == \A p \in Procs : Cardinality(q[p]) <= MaxQueue

\* A user_input_handler that multicasts a line without the increment.
user_input_handler_no_increment(p) ==
    /\ multicasting[p] = Idle
    /\ stdin[p] # <<>>
    /\ stdin' = [stdin EXCEPT ![p] = Tail(stdin[p])]
    /\ multicasting' = [multicasting EXCEPT ![p] = [line |-> Head(stdin[p]), next |-> 0]]
    /\ seen' = [seen EXCEPT ![p] = Append(seen[p], Len(delivered[p]))]
    /\ last' = Did("user_input_handler", p, {})
    /\ UNCHANGED <<drop_rate, my_timestamp, message_id_counter, has_received,
                   has_acknowledged, unack_messages, holdback_queue, queue, ticks, delivered,
                   mutex, scanned>>

\* user_input_handler reads a line and increments its own index.
user_input_handler(p) ==
    /\ multicasting[p] = Idle
    /\ stdin[p] # <<>>
    /\ stdin' = [stdin EXCEPT ![p] = Tail(stdin[p])]
    /\ my_timestamp' = [my_timestamp EXCEPT ![p][p] = my_timestamp[p][p] + 1]
    /\ multicasting' = [multicasting EXCEPT ![p] = [line |-> Head(stdin[p]), next |-> 0]]
    /\ seen' = [seen EXCEPT ![p] = Append(seen[p], Len(delivered[p]))]
    /\ last' = Did("user_input_handler", p, {})
    /\ UNCHANGED <<drop_rate, message_id_counter, has_received, has_acknowledged,
                   unack_messages, holdback_queue, queue, ticks, delivered, mutex, scanned>>

\* One turn of the loop of multicast: unicast_send(id, message), which stamps
\* the copy with the vector of this moment.
multicast(p) ==
    /\ multicasting[p] # Idle
    /\ LET destination == multicasting[p].next
           message == multicasting[p].line
           timestamp == my_timestamp[p]
           msg_id == message_id_counter[p] + 1
           packet == pack_message(p, msg_id, FALSE, timestamp, message, destination)
       IN /\ message_id_counter' = [message_id_counter EXCEPT ![p] = msg_id]
          /\ unack_messages' = [unack_messages EXCEPT
                ![p] = Append(unack_messages[p], <<destination, msg_id, message, timestamp>>)]
          /\ \E drop \in DropTests(p) :
                queue' = [queue EXCEPT ![p] = enqueue(queue[p], packet, drop)]
          /\ last' = Did("multicast", p, {packet})
          /\ multicasting' = [multicasting EXCEPT
                ![p] = IF destination + 1 = num_processes
                       THEN Idle
                       ELSE [line |-> message, next |-> destination + 1]]
    /\ QueueBound(queue')
    /\ UNCHANGED <<drop_rate, my_timestamp, has_received, has_acknowledged,
                   holdback_queue, stdin, ticks, delivered, seen, mutex, scanned>>

\* A test that takes every data message for new.
received_never(received, sender, message_id) == FALSE

\* The test of unicast_receive for a data message it has received before.
received_before(received, sender, message_id) == <<sender, message_id>> \in received

\* An acknowledgement of new messages only.
acknowledges_new_only(duplicate) == ~duplicate

\* unicast_receive acknowledges a data message before it tests for a duplicate.
acknowledges(duplicate) == TRUE

\* unicast_receive of the datagram data, with the update_holdback_queue it
\* calls; q is the queues once the datagram has left its sender's.
unicast_receive(p, data, q) ==
    LET fields == unpack_message(data)
        sender == fields[1]
        message_id == fields[2]
        is_ack == fields[3]
        message_timestamp == fields[4]
        message == fields[5]
        duplicate == received_before(has_received[p], sender, message_id)
        ack == pack_message(p, message_id, TRUE, my_timestamp[p], NoMessage, sender)
    IN /\ IF is_ack
          THEN /\ has_acknowledged' = [has_acknowledged EXCEPT
                     ![p] = has_acknowledged[p] \cup {<<sender, message_id>>}]
               /\ queue' = q
               /\ last' = Did("unicast_receive", p, {})
               /\ UNCHANGED <<has_received, holdback_queue, my_timestamp, delivered>>
          ELSE /\ IF acknowledges(duplicate)
                  THEN /\ \E drop \in DropTests(p) :
                             queue' = [q EXCEPT ![p] = enqueue(q[p], ack, drop)]
                       /\ last' = Did("unicast_receive", p, {ack})
                  ELSE /\ queue' = q
                       /\ last' = Did("unicast_receive", p, {})
               /\ IF ~duplicate
                  THEN LET u == update_holdback_queue(
                                   my_timestamp[p],
                                   Append(holdback_queue[p],
                                          <<sender, message_timestamp, message>>),
                                   delivered[p], <<sender, message_id>>)
                       IN /\ has_received' = [has_received EXCEPT
                                ![p] = has_received[p] \cup {<<sender, message_id>>}]
                          /\ my_timestamp' = [my_timestamp EXCEPT ![p] = u.ts]
                          /\ holdback_queue' = [holdback_queue EXCEPT ![p] = u.hq]
                          /\ delivered' = [delivered EXCEPT ![p] = u.out]
                  ELSE UNCHANGED <<has_received, holdback_queue, my_timestamp, delivered>>
               /\ UNCHANGED has_acknowledged
       /\ QueueBound(queue')
       /\ UNCHANGED <<drop_rate, message_id_counter, unack_messages, stdin, multicasting,
                      ticks, seen, mutex, scanned>>

\* A receiver that takes every datagram for a data message.
message_queue_handler_all_data(p) ==
    \E packet \in queue[p] :
        unicast_receive(packet.dest, [packet EXCEPT !.is_ack = FALSE],
                        [queue EXCEPT ![p] = queue[p] \ {packet}])

\* One turn of message_queue_handler that finds a packet due: sock.sendto, and
\* the recvfrom of incoming_message_handler at the packet's destination. A
\* datagram in a socket buffer differs from one still in the queue in nothing a
\* process can see, so the socket is a rendezvous.
message_queue_handler(p) ==
    \E packet \in queue[p] :
        unicast_receive(packet.dest, packet, [queue EXCEPT ![p] = queue[p] \ {packet}])

\* A tick that keeps no record, and so sends none again.
new_unack_messages_none(unack, acked) == <<>>

\* A scan that gives up the oldest record, acknowledged or not.
new_unack_messages_but_oldest(unack, acked) ==
    IF unack = <<>> THEN <<>> ELSE Tail(unack)

\* The records of an unack list that are not acknowledged.
RECURSIVE new_unack_messages(_, _)
new_unack_messages(unack, acked) ==
    IF unack = <<>>
    THEN <<>>
    ELSE LET rest == new_unack_messages(Tail(unack), acked)
         IN IF <<Head(unack)[1], Head(unack)[2]>> \notin acked
            THEN <<Head(unack)>> \o rest
            ELSE rest

\* A resend stamped with the vector of the moment of the tick.
resent_restamped(p, record) ==
    pack_message(p, record[2], FALSE, my_timestamp[p], record[3], record[1])

\* The packet ack_handler sends again for a record of the unack list.
resent(p, record) == pack_message(p, record[2], FALSE, record[4], record[3], record[1])

\* The queue after the resends of one tick, drops[k] being the drop test of
\* the k-th.
resend(q, p, unack, drops) ==
    q \cup UNION {enqueue({}, resent(p, unack[k]), drops[k]) : k \in 1..Len(unack)}

\* One tick of ack_handler.
ack_handler(p) ==
    LET new == new_unack_messages(unack_messages[p], has_acknowledged[p])
    IN /\ ticks # 0
       /\ ticks' = IF ticks = Unlimited THEN ticks ELSE ticks - 1
       /\ unack_messages' = [unack_messages EXCEPT ![p] = new]
       /\ \E drops \in [1..Len(new) -> DropTests(p)] :
             queue' = [queue EXCEPT ![p] = resend(queue[p], p, new, drops)]
       /\ QueueBound(queue')
       /\ last' = Did("ack_handler", p, {resent(p, new[k]) : k \in 1..Len(new)})
       /\ UNCHANGED <<drop_rate, my_timestamp, message_id_counter, has_received,
                      has_acknowledged, holdback_queue, stdin, multicasting, delivered, seen,
                      mutex, scanned>>

\* A step of one thread of one process.
Next ==
    \E p \in Procs :
        \/ user_input_handler(p)
        \/ multicast(p)
        \/ message_queue_handler(p)
        \/ ack_handler(p)

Spec == Init /\ [][Next]_vars

\* The process that types in InitLossy.
Typist == 0

\* Processes started with drop rate 0.5 and one line typed at the typist.
InitLossy == InitState(2, [p \in Procs |-> IF p = Typist THEN 1 ELSE 0], Unlimited)

SpecLossy == InitLossy /\ [][Next]_vars

\* The typist started with drop rate 1.0 and the others with drop rate 0, one
\* line typed at the typist and one at the next process.
InitDropAll ==
    /\ drop_rate = [p \in Procs |-> IF p = Typist THEN 4 ELSE 0]
    /\ my_timestamp = [p \in Procs |-> [i \in Procs |-> 0]]
    /\ message_id_counter = [p \in Procs |-> 0]
    /\ has_received = [p \in Procs |-> {}]
    /\ has_acknowledged = [p \in Procs |-> {}]
    /\ unack_messages = [p \in Procs |-> <<>>]
    /\ holdback_queue = [p \in Procs |-> <<>>]
    /\ queue = [p \in Procs |-> {}]
    /\ stdin = [p \in Procs |-> Lines(p, IF p \in {Typist, Typist + 1} THEN 1 ELSE 0)]
    /\ multicasting = [p \in Procs |-> Idle]
    /\ ticks = Unlimited
    /\ mutex = [p \in Procs |-> Free]
    /\ scanned = [p \in Procs |-> NotScanned]
    /\ delivered = [p \in Procs |-> <<>>]
    /\ seen = [p \in Procs |-> <<>>]
    /\ last = Did("init", 0, {})

SpecDropAll == InitDropAll /\ [][Next]_vars

(***************************************************************************)
(* The threads of a process and self.mutex: ack_handler in the three steps  *)
(* of its with block, and the with block of unicast_send.                   *)
(***************************************************************************)

\* A unicast_send that never takes the mutex.
needs_mutex_never(is_ack, msg_id_given) == FALSE

\* A unicast_send that takes the mutex for every data message.
needs_mutex_for_data(is_ack, msg_id_given) == ~is_ack

\* unicast_send enters its with block: not for an acknowledgement, and not
\* when the caller gives the message id.
needs_mutex(is_ack, msg_id_given) == ~is_ack /\ ~msg_id_given

\* One turn of the loop of multicast, whose unicast_send waits for the mutex.
multicast_with_mutex(p) ==
    /\ needs_mutex(FALSE, FALSE) => mutex[p] = Free
    /\ multicast(p)

\* ack_handler wakes up and enters its with block.
ack_handler_acquire(p) ==
    /\ ticks # 0
    /\ mutex[p] = Free
    /\ mutex' = [mutex EXCEPT ![p] = "ack_handler"]
    /\ UNCHANGED scanned
    /\ ticks' = IF ticks = Unlimited THEN ticks ELSE ticks - 1
    /\ last' = Did("ack_handler_acquire", p, {})
    /\ UNCHANGED <<drop_rate, my_timestamp, message_id_counter, has_received,
                   has_acknowledged, unack_messages, holdback_queue, queue, stdin,
                   multicasting, delivered, seen>>

\* The loop of ack_handler: a unicast_send that needs the mutex waits for it.
ack_handler_scan(p) ==
    LET new == new_unack_messages(unack_messages[p], has_acknowledged[p])
    IN /\ mutex[p] = "ack_handler"
       /\ ~scanned[p].done
       /\ new = <<>> \/ ~needs_mutex(FALSE, TRUE)
       /\ scanned' = [scanned EXCEPT ![p] = [done |-> TRUE, new |-> new]]
       /\ \E drops \in [1..Len(new) -> DropTests(p)] :
             queue' = [queue EXCEPT ![p] = resend(queue[p], p, new, drops)]
       /\ QueueBound(queue')
       /\ last' = Did("ack_handler", p, {resent(p, new[k]) : k \in 1..Len(new)})
       /\ UNCHANGED <<drop_rate, my_timestamp, message_id_counter, has_received,
                      has_acknowledged, unack_messages, holdback_queue, stdin, multicasting,
                      ticks, delivered, seen, mutex>>

\* The last statement of the with block of ack_handler, and its end.
ack_handler_release(p) ==
    /\ mutex[p] = "ack_handler"
    /\ scanned[p].done
    /\ unack_messages' = [unack_messages EXCEPT ![p] = scanned[p].new]
    /\ scanned' = [scanned EXCEPT ![p] = NotScanned]
    /\ mutex' = [mutex EXCEPT ![p] = Free]
    /\ last' = Did("ack_handler_release", p, {})
    /\ UNCHANGED <<drop_rate, my_timestamp, message_id_counter, has_received,
                   has_acknowledged, holdback_queue, queue, stdin, multicasting, ticks,
                   delivered, seen>>

\* A step of one thread of one process, between two uses of the mutex.
NextThreads ==
    \E p \in Procs :
        \/ user_input_handler(p)
        \/ multicast_with_mutex(p)
        \/ message_queue_handler(p)
        \/ ack_handler_acquire(p)
        \/ ack_handler_scan(p)
        \/ ack_handler_release(p)

\* Processes started with drop rate 0.5, one line typed at the typist, and
\* MaxTicks ticks of the ack_handler threads.
InitThreads == InitState(2, [p \in Procs |-> IF p = Typist THEN 1 ELSE 0], MaxTicks)

SpecThreads == InitThreads /\ [][NextThreads]_vars

\* A thread inside a with block goes on; the ack_handler threads sleep
\* between their with blocks, so a unicast_send that waits for the mutex gets it.
FairnessThreads ==
    \A p \in Procs :
        /\ WF_vars(ack_handler_scan(p))
        /\ WF_vars(ack_handler_release(p))
        /\ SF_vars(multicast_with_mutex(p))

SpecThreadsFair == InitThreads /\ [][NextThreads]_vars /\ FairnessThreads

\* ---------------------------------------------------------------------------
\* The standalone process of main.py. Each process is one Main; its message_id
\* is message_id_counter, what it prints is delivered, and queue[p] is the
\* datagrams p has put on the wire with sock.sendto. Main has no vector
\* timestamp, no holdback queue and no send queue, and run starts two threads
\* only: process_message_out and process_message_in.

\* The None that unicast_receive returns in the place of a payload: a token
\* that no line is.
None == Line(0, 0)

\* The wire codec of main.py: four fields, and the address it is sent to.
Main_pack_message(my_ID, id, is_ack, message, destination) ==
    [sender |-> my_ID, msg_id |-> id, is_ack |-> is_ack, message |-> message,
     dest |-> destination]

Main_unpack_message(data) == <<data.sender, data.msg_id, data.is_ack, data.message>>

\* Main.unicast_send from its drop test on: the datagrams of the wire after
\* one call whose drop test came out as drop.
Main_unicast_send(wire, packet, drop) == IF drop THEN wire ELSE wire \cup {packet}

\* The test of Main.unicast_receive on a data message.
Main_has_received(received, sender, message_id) == <<sender, message_id>> \in received

\* What Main.unicast_receive does with a data message after it has sent the
\* acknowledgement: the has_received it leaves and the pair it returns.
Main_unicast_receive(received, sender, message_id, message) ==
    IF Main_has_received(received, sender, message_id)
    THEN [has_received |-> received \cup {<<sender, message_id>>},
          result |-> <<sender, message>>]
    ELSE [has_received |-> received, result |-> <<sender, None>>]

\* One turn of process_message_out: a line is read and multicast calls
\* unicast_send for each host in turn, which allocates an id, appends
\* (my_ID, id, message) to unack_messages and sends unless the drop test
\* says drop.
process_message_out(p) ==
    /\ stdin[p] # <<>>
    /\ LET message == Head(stdin[p])
           id == [destination \in Procs |-> message_id_counter[p] + destination + 1]
           packet == [destination \in Procs |->
                         Main_pack_message(p, id[destination], FALSE, message, destination)]
       IN /\ message_id_counter' =
                [message_id_counter EXCEPT ![p] = message_id_counter[p] + num_processes]
          /\ unack_messages' = [unack_messages EXCEPT
                ![p] = unack_messages[p] \o
                       [k \in 1..num_processes |-> <<p, id[k - 1], message>>]]
          /\ \E drops \in [Procs -> DropTests(p)] :
                queue' = [queue EXCEPT
                   ![p] = queue[p] \cup
                          UNION {Main_unicast_send({}, packet[d], drops[d]) : d \in Procs}]
          /\ last' = Did("process_message_out", p, {packet[d] : d \in Procs})
    /\ stdin' = [stdin EXCEPT ![p] = Tail(stdin[p])]
    /\ UNCHANGED <<drop_rate, my_timestamp, has_received, has_acknowledged,
                   holdback_queue, multicasting, ticks, delivered, seen, mutex, scanned>>

\* One turn of process_message_in that finds a datagram: deliver, which is
\* unicast_receive, and the print of what it returns unless that is None.
process_message_in(p) ==
    \E q \in Procs : \E data \in queue[q] :
        /\ data.dest = p
        /\ LET wire == [queue EXCEPT ![q] = queue[q] \ {data}]
               fields == Main_unpack_message(data)
               sender == fields[1]
               message_id == fields[2]
               is_ack == fields[3]
               message == fields[4]
               ack == Main_pack_message(p, message_id, TRUE, NoMessage, sender)
               r == IF is_ack
                    THEN [has_received |-> has_received[p], result |-> <<sender, None>>]
                    ELSE Main_unicast_receive(has_received[p], sender, message_id, message)
           IN /\ IF is_ack
                 THEN /\ has_acknowledged' = [has_acknowledged EXCEPT
                            ![p] = has_acknowledged[p] \cup {<<sender, message_id>>}]
                      /\ queue' = wire
                      /\ last' = Did("process_message_in", p, {})
                 ELSE /\ \E drop \in DropTests(p) :
                            queue' = [wire EXCEPT ![p] = Main_unicast_send(wire[p], ack, drop)]
                      /\ last' = Did("process_message_in", p, {ack})
                      /\ UNCHANGED has_acknowledged
              /\ has_received' = [has_received EXCEPT ![p] = r.has_received]
              /\ delivered' = [delivered EXCEPT
                    ![p] = IF r.result[2] = None
                           THEN delivered[p]
                           ELSE Append(delivered[p],
                                       [sender |-> r.result[1], message |-> r.result[2]])]
        /\ UNCHANGED <<drop_rate, my_timestamp, message_id_counter, unack_messages,
                       holdback_queue, stdin, multicasting, ticks, seen, mutex, scanned>>

NextMain == \E p \in Procs : process_message_out(p) \/ process_message_in(p)

\* Three Main processes started with a drop rate that drops some sends and
\* not others, one line typed at each of two of them.
InitMain == InitState(2, [p \in Procs |-> IF p \in {Typist, Typist + 1} THEN 1 ELSE 0], Unlimited)

SpecMain == InitMain /\ [][NextMain]_vars

\* The data packets of p with message id id, and their acknowledgements.
IsData(X, p, id) == X.sender = p /\ X.msg_id = id /\ ~X.is_ack
IsAck(X, p, id) == X.dest = p /\ X.msg_id = id /\ X.is_ack

\* A tick of ack_handler at p whose resend of message id passes the drop test.
Resend(p, id) ==
    /\ \E k \in 1..Len(unack_messages[p]) :
          unack_messages[p][k][2] = id /\ resent(p, unack_messages[p][k]) \notin queue[p]
    /\ ack_handler(p)
    /\ \E X \in queue'[p] \ queue[p] : IsData(X, p, id)

\* The data message id of p is sent out and received, and its
\* acknowledgement passes the drop test.
ReceiveData(p, id) ==
    \E X \in queue[p] :
        /\ IsData(X, p, id)
        /\ unicast_receive(X.dest, X, [queue EXCEPT ![p] = queue[p] \ {X}])
        /\ \E A \in queue'[X.dest] : IsAck(A, p, id)

\* An acknowledgement of the message id of p is sent out and received.
ReceiveAck(p, id) ==
    \E d \in Procs : \E A \in queue[d] :
        /\ IsAck(A, p, id)
        /\ unicast_receive(p, A, [queue EXCEPT ![d] = queue[d] \ {A}])

\* A tick of ack_handler at p that finds an acknowledged record.
Retire(p) ==
    /\ \E k \in 1..Len(unack_messages[p]) :
          <<unack_messages[p][k][1], unack_messages[p][k][2]>> \in has_acknowledged[p]
    /\ ack_handler(p)

\* The message ids of the one line of the typist.
Ids == 1..num_processes

\* The threads loop for ever, and a draw of random.random() that is repeated
\* for ever passes the drop test of a drop rate below 1 again and again: a tick
\* that finds an acknowledged record comes; of the messages resent for ever,
\* one is enqueued again and again; of the messages enqueued again and again,
\* one is received and its acknowledgement enqueued again and again; and of
\* the acknowledgements enqueued, one is received.
Fairness ==
    /\ WF_vars(Retire(Typist))
    /\ SF_vars(\E id \in Ids : Resend(Typist, id))
    /\ SF_vars(\E id \in Ids : ReceiveData(Typist, id))
    /\ WF_vars(\E id \in Ids : ReceiveAck(Typist, id))

SpecLossyFair == InitLossy /\ [][Next]_vars /\ Fairness

(***************************************************************************)
(* The histories read as messages and their order.                         *)
(***************************************************************************)

\* The messages stamped so far: the n-th line of p, for each line p has read.
Messages == {Line(p, n) : p \in Procs, n \in 1..MaxInputs} \cap
            UNION {{Line(p, n) : n \in 1..Len(seen[p])} : p \in Procs}

\* The messages process q has called deliver for.
DeliveredAt(q) == {delivered[q][k].message : k \in 1..Len(delivered[q])}

\* The place of message m among the calls of deliver at q.
Place(q, m) == CHOOSE k \in 1..Len(delivered[q]) : delivered[q][k].message = m

\* m1 was sent earlier by the sender of m2, or was delivered at the sender of
\* m2 before it read and stamped the line of m2.
Precedes(m1, m2) ==
    \/ m1[1] = m2[1] /\ m1[2] < m2[2]
    \/ \E k \in 1..seen[m2[1]][m2[2]] : delivered[m2[1]][k].message = m1

\* Happens-before: Precedes, or a chain of at most k more messages.
RECURSIVE Chain(_, _, _)
Chain(m1, m2, k) ==
    \/ Precedes(m1, m2)
    \/ k > 0 /\ \E m \in Messages \ {m1, m2} : Precedes(m1, m) /\ Chain(m, m2, k - 1)

HappensBefore(m1, m2) == m1 # m2 /\ Chain(m1, m2, Cardinality(Messages))

\* The release rule, read off a vector V and a timestamp T of sender s.
SenderIndexHolds(V, s, T) == T[s] = V[s] + 1
CrossIndexHolds(V, s, T) == \A i \in Procs \ {s} : T[i] <= V[i]

\* C1, as stated: for messages m1 that happens-before m2, every process that
\* has called deliver for m2 has called it for m1 before, the sender of m1
\* included.
CausalSafetyEverywhere ==
    \A q \in Procs : \A m1 \in Messages : \A m2 \in Messages :
        (HappensBefore(m1, m2) /\ m2 \in DeliveredAt(q))
            => (m1 \in DeliveredAt(q) /\ Place(q, m1) < Place(q, m2))

\* C1, amended: for messages m1 that happens-before m2, every process other
\* than the sender of m1 that has called deliver for m2 has called it for m1
\* before; and where both are delivered, m1 is first.
CausalSafety ==
    \A q \in Procs : \A m1 \in Messages : \A m2 \in Messages :
        (HappensBefore(m1, m2) /\ m2 \in DeliveredAt(q))
            => /\ q # m1[1] => m1 \in DeliveredAt(q)
               /\ m1 \in DeliveredAt(q) => Place(q, m1) < Place(q, m2)

\* A process has delivered m1 and then m2, which happened after m1 at another
\* process and had arrived first: one datagram released both.
CausalSafetyWitness ==
    \E q \in Procs : \E m1 \in DeliveredAt(q) : \E m2 \in DeliveredAt(q) :
        /\ m1[1] # m2[1]
        /\ HappensBefore(m1, m2)
        /\ Place(q, m1) < Place(q, m2)
        /\ delivered[q][Place(q, m1)].trigger = delivered[q][Place(q, m2)].trigger

\* C2: no process calls deliver twice for one message of one sender, and it
\* calls deliver for no more messages of a sender than it has received
\* (sender, message id) pairs of that sender.
NoDuplicateDelivery ==
    \A q \in Procs :
        /\ \A j \in 1..Len(delivered[q]) : \A k \in 1..Len(delivered[q]) :
              (delivered[q][j].sender = delivered[q][k].sender
                 /\ delivered[q][j].message = delivered[q][k].message) => j = k
        /\ \A s \in Procs :
              Cardinality({k \in 1..Len(delivered[q]) : delivered[q][k].sender = s})
                 <= Cardinality({key \in has_received[q] : key[1] = s})

\* A process has just received, and acknowledged, a data message for the
\* second time at least (its sender already holds an acknowledgement of it) and
\* has delivered a message of that sender.
NoDuplicateDeliveryWitness ==
    /\ last.op = "unicast_receive"
    /\ \E ack \in last.sent :
          /\ ack.dest # last.p
          /\ <<last.p, ack.msg_id>> \in has_acknowledged[ack.dest]
          /\ \E k \in 1..Len(delivered[last.p]) : delivered[last.p][k].sender = ack.dest

\* The holdback entries of q as a set.
Held(hq) == {hq[k] : k \in 1..Len(hq)}

\* C6: every call of deliver is for an entry that leaves the holdback queue
\* and that satisfies both conditions of the release rule against the vector
\* of the moment of the call; an entry that is in the holdback queue and whose
\* cross-index condition fails against the vector the step leaves stays in it.
ReleaseRule ==
    [][\A q \in Procs :
          /\ Len(delivered'[q]) >= Len(delivered[q])
          /\ \A k \in (Len(delivered[q]) + 1)..Len(delivered'[q]) :
                LET d == delivered'[q][k]
                IN /\ SenderIndexHolds(d.at, d.sender, d.v)
                   /\ CrossIndexHolds(d.at, d.sender, d.v)
                   /\ <<d.sender, d.v, d.message>> \notin Held(holdback_queue'[q])
          /\ \A e \in Held(holdback_queue[q]) :
                \/ e \in Held(holdback_queue'[q])
                \/ /\ CrossIndexHolds(my_timestamp'[q], e[1], e[2])
                   /\ \E k \in (Len(delivered[q]) + 1)..Len(delivered'[q]) :
                         /\ delivered'[q][k].sender = e[1]
                         /\ delivered'[q][k].v = e[2]
                         /\ delivered'[q][k].message = e[3]
      ]_vars

\* An entry is held back whose sender-index condition holds and whose
\* cross-index condition fails.
ReleaseRuleWitness ==
    \E q \in Procs : \E e \in Held(holdback_queue[q]) :
        /\ SenderIndexHolds(my_timestamp[q], e[1], e[2])
        /\ ~CrossIndexHolds(my_timestamp[q], e[1], e[2])

\* C7: between the steps, no entry of a holdback queue satisfies the release
\* rule against the vector of its process.
FixedPointRelease ==
    \A q \in Procs : \A e \in Held(holdback_queue[q]) :
        ~(SenderIndexHolds(my_timestamp[q], e[1], e[2])
            /\ CrossIndexHolds(my_timestamp[q], e[1], e[2]))

\* The scenario of the specification: process 2 held B of process 1, stamped
\* [1,1,0], and the arrival of A of process 0, stamped [1,0,0], released A
\* and then B in the one call.
FixedPointReleaseWitness ==
    /\ Len(delivered[2]) = 2
    /\ delivered[2][1].sender = 0 /\ delivered[2][1].v = (0 :> 1 @@ 1 :> 0 @@ 2 :> 0)
    /\ delivered[2][2].sender = 1 /\ delivered[2][2].v = (0 :> 1 @@ 1 :> 1 @@ 2 :> 0)
    /\ delivered[2][1].trigger = delivered[2][2].trigger
    /\ holdback_queue[2] = <<>>

\* The calls of deliver at q for messages of s.
From(q, s) == SelectSeq(delivered[q], LAMBDA d : d.sender = s)

\* C8: the k-th message a process delivers from another sender s is the k-th
\* message of s and carries T[s] = k, and the process's entry for s is the
\* number of messages of s it has delivered.
SameSenderFifo ==
    \A q \in Procs : \A s \in Procs \ {q} :
        /\ my_timestamp[q][s] = Len(From(q, s))
        /\ \A k \in 1..Len(From(q, s)) :
              From(q, s)[k].v[s] = k /\ From(q, s)[k].message = Line(s, k)

\* A process has delivered two messages of one sender, the second of which
\* had arrived first and waited for the first.
SameSenderFifoWitness ==
    \E q \in Procs : \E s \in Procs \ {q} :
        /\ Len(From(q, s)) = 2
        /\ From(q, s)[1].trigger = From(q, s)[2].trigger

\* C10: no step decreases an entry of a vector timestamp.
VectorMonotonicity ==
    [][\A p \in Procs : \A i \in Procs : my_timestamp'[p][i] >= my_timestamp[p][i]]_vars

\* The vector of a process has grown at its own index, by a local send, and
\* at another, by a release.
VectorMonotonicityWitness ==
    \E p \in Procs : \E i \in Procs \ {p} :
        my_timestamp[p][p] > 0 /\ my_timestamp[p][i] > 0

\* Process q has received every copy addressed to it of every line that will
\* ever be typed: nothing calls update_holdback_queue at q any more.
ReceivedAll(q) ==
    /\ \A p \in Procs : stdin[p] = <<>> /\ multicasting[p] = Idle
    /\ \A p \in Procs : \A id \in 1..message_id_counter[p] :
          (id - 1) % num_processes = q => <<p, id>> \in has_received[q]

\* C4: every process eventually delivers every message of every other
\* process; so once it has received them all, and no release can follow, it
\* has delivered them all and holds back none of them.
EventualDelivery ==
    \A q \in Procs :
        ReceivedAll(q) =>
            /\ \A m \in Messages : m[1] # q => m \in DeliveredAt(q)
            /\ \A e \in Held(holdback_queue[q]) : e[1] = q

\* The unack list of p holds a record for (d, id).
InUnack(p, d, id) ==
    \E k \in 1..Len(unack_messages[p]) :
        unack_messages[p][k][1] = d /\ unack_messages[p][k][2] = id

\* Every message id p has allocated is acknowledged by its destination and
\* has no record in the unack list of p.
AllAcknowledged(p) ==
    /\ unack_messages[p] = <<>>
    /\ \A id \in 1..message_id_counter[p] :
          \E d \in Procs : <<d, id>> \in has_acknowledged[p]

\* C3: under the fair lossy channel, every record unicast_send makes is in
\* the end acknowledged and out of the unack list, for good: from some moment
\* on, every id allocated is in has_acknowledged and the unack lists are empty.
EventualAcknowledgement == <>[](\A p \in Procs : AllAcknowledged(p))

\* The first transmission of a message has just been dropped, its record is
\* in the unack list, and an earlier copy is acknowledged and out of the list.
EventualAcknowledgementWitness ==
    /\ last.op = "multicast"
    /\ \E X \in last.sent :
          /\ X \notin queue[last.p]
          /\ InUnack(last.p, X.dest, X.msg_id)
          /\ \E d \in Procs \ {last.p} : \E id \in 1..message_id_counter[last.p] :
                <<d, id>> \in has_acknowledged[last.p] /\ ~InUnack(last.p, d, id)

\* C5: a step that receives a data message X hands unicast_send one
\* acknowledgement, to the sender of X and with the message id of X, and nothing
\* but that acknowledgement enters the receiver's queue; if (sender, id) of X
\* was in has_received, the step leaves holdback queue, vector timestamp and
\* the calls of deliver of the receiver as they were.
IdempotentAcknowledgement ==
    [][last'.op = "unicast_receive" =>
          \A p \in Procs : \A X \in queue[p] \ queue'[p] :
              ~X.is_ack =>
                  LET d == X.dest
                  IN /\ last'.p = d
                     /\ Cardinality(last'.sent) = 1
                     /\ \A A \in last'.sent :
                           /\ A.is_ack /\ A.sender = d /\ A.dest = X.sender
                           /\ A.msg_id = X.msg_id
                     /\ queue'[d] \ last'.sent \subseteq queue[d]
                     /\ <<X.sender, X.msg_id>> \in has_received'[d]
                     /\ <<X.sender, X.msg_id>> \in has_received[d] =>
                           /\ holdback_queue'[d] = holdback_queue[d]
                           /\ my_timestamp'[d] = my_timestamp[d]
                           /\ delivered'[d] = delivered[d]
                           /\ has_received'[d] = has_received[d]
      ]_vars

\* A process has just received a data message that it had received before
\* (its sender holds an acknowledgement of it), and the acknowledgement it
\* issued was dropped.
IdempotentAcknowledgementWitness ==
    /\ last.op = "unicast_receive"
    /\ \E A \in last.sent :
          /\ A.dest # last.p
          /\ <<last.p, A.msg_id>> \in has_acknowledged[A.dest]
          /\ A \notin queue[last.p]

\* The records of a list that are for an acknowledged (destination, id) or not.
Records(unack, acked, is_acked) ==
    SelectSeq(unack, LAMBDA r : (<<r[1], r[2]>> \in acked) = is_acked)

\* C9: a tick of ack_handler at p keeps the records that are not
\* acknowledged, in order, and drops the others; it hands unicast_send one
\* packet for each record kept, with the id, the payload and the timestamp of
\* the record, and none for any other; it allocates no message id. The
\* timestamp of a record is the vector of its process when unicast_send made
\* the record.
VerbatimRetransmission ==
    [][/\ last'.op = "ack_handler" =>
             LET p == last'.p
                 kept == Records(unack_messages[p], has_acknowledged[p], FALSE)
             IN /\ unack_messages'[p] = kept
                /\ last'.sent =
                      {[sender |-> p, msg_id |-> kept[k][2], is_ack |-> FALSE,
                        timestamp |-> kept[k][4], message |-> kept[k][3],
                        dest |-> kept[k][1]] : k \in 1..Len(kept)}
                /\ queue'[p] \ queue[p] \subseteq last'.sent
                /\ \A X \in last'.sent : <<X.dest, X.msg_id>> \notin has_acknowledged'[p]
                /\ message_id_counter' = message_id_counter
                /\ \A q \in Procs \ {p} : unack_messages'[q] = unack_messages[q]
       /\ last'.op = "multicast" =>
             LET p == last'.p
                 n == Len(unack_messages'[p])
             IN /\ n = Len(unack_messages[p]) + 1
                /\ unack_messages'[p][n][4] = my_timestamp[p]
                /\ unack_messages'[p][n][2] = message_id_counter[p] + 1
      ]_vars

\* A tick has dropped an acknowledged record and has sent again a message
\* whose timestamp is no longer the vector of its process.
VerbatimRetransmissionWitness ==
    /\ last.op = "ack_handler"
    /\ Len(unack_messages[last.p]) < message_id_counter[last.p]
    /\ \E X \in last.sent : X.timestamp # my_timestamp[last.p]

\* The copies of the n-th line of p, wherever they are: the timestamps of its
\* records in the unack list of p, of its packets in the queue of p, and of
\* its entries in the holdback queues and among the calls of deliver.
Copies(p, n) ==
    {unack_messages[p][k][4] :
        k \in {j \in 1..Len(unack_messages[p]) : unack_messages[p][j][3] = Line(p, n)}}
    \cup {X.timestamp : X \in {Y \in queue[p] : ~Y.is_ack /\ Y.message = Line(p, n)}}
    \cup UNION {{e[2] : e \in {f \in Held(holdback_queue[q]) : f[3] = Line(p, n)}} :
                q \in Procs}
    \cup UNION {{delivered[q][k].v :
                    k \in {j \in 1..Len(delivered[q]) : delivered[q][j].message = Line(p, n)}} :
                q \in Procs}

\* C11: the own entry of p is the number of lines p has read and every copy
\* of the n-th line of p carries T[p] = n; the own entry changes only in the
\* step of user_input_handler of p that reads a line, and by one.
OwnEntryCounting ==
    /\ [](\A p \in Procs :
            /\ my_timestamp[p][p] = Len(seen[p])
            /\ \A n \in 1..MaxInputs : \A T \in Copies(p, n) : T[p] = n)
    /\ [][\A p \in Procs :
            my_timestamp'[p][p] # my_timestamp[p][p] =>
                /\ last'.op = "user_input_handler" /\ last'.p = p
                /\ my_timestamp'[p][p] = my_timestamp[p][p] + 1
                /\ Len(stdin'[p]) = Len(stdin[p]) - 1
                /\ Copies(p, my_timestamp'[p][p]) = {}
       ]_vars

\* A process has read a line, whose copies carry 1 at its own index, and has
\* delivered a message of another process: the release has changed its
\* vector and left its own entry alone.
OwnEntryCountingWitness ==
    \E p \in Procs :
        /\ my_timestamp[p][p] = 1
        /\ Copies(p, 1) # {}
        /\ \E q \in Procs \ {p} : my_timestamp[p][q] > 0

\* The processes whose every drop test drops: drop rate 1.0.
DropsAll(p) == DropTests(p) = {TRUE}

\* C12: of a process p with drop rate 1.0, no packet is ever in the send
\* queue; no process has received or delivered a message of p or holds an
\* acknowledgement sent by p, and p holds none; every record p has made is in
\* its unack list; a tick of p is always possible, and each attempts the
\* resend of every record and keeps them all.
PermanentLoss ==
    /\ [](\A p \in Procs :
            DropsAll(p) =>
                /\ queue[p] = {}
                /\ \A q \in Procs :
                      /\ \A key \in has_received[q] : key[1] # p
                      /\ \A k \in 1..Len(delivered[q]) : delivered[q][k].sender # p
                      /\ \A key \in has_acknowledged[q] : key[1] # p
                /\ has_acknowledged[p] = {}
                /\ Len(unack_messages[p]) = message_id_counter[p]
                /\ \A k \in 1..Len(unack_messages[p]) : unack_messages[p][k][2] = k
                /\ ENABLED ack_handler(p))
    /\ [][\A p \in Procs :
            (DropsAll(p) /\ last'.op = "ack_handler" /\ last'.p = p) =>
                /\ unack_messages'[p] = unack_messages[p]
                /\ Cardinality(last'.sent) = Len(unack_messages[p])
       ]_vars

\* A process with drop rate 1.0 has made its three records and has received
\* and delivered the message of another; its last tick has attempted three
\* resends, and its queue is empty.
PermanentLossWitness ==
    \E p \in Procs :
        /\ DropsAll(p)
        /\ last.op = "ack_handler" /\ last.p = p
        /\ Cardinality(last.sent) = num_processes
        /\ Len(delivered[p]) > 0
        /\ queue[p] = {}

\* The thread op of process p holds the mutex of p.
HoldsMutex(p, op) == mutex[p] = op

\* C13: a step that changes the vector timestamp of a process, or that reads
\* it to stamp an outgoing message, is a step of a thread that holds the
\* mutex of the process.
LockingDiscipline ==
    [][\A p \in Procs :
          /\ my_timestamp'[p] # my_timestamp[p] => HoldsMutex(p, last'.op)
          /\ (last'.op = "multicast" /\ last'.p = p) => HoldsMutex(p, last'.op)
      ]_vars

\* C14: all copies of one line carry one timestamp.
AtomicIncrementAndAttach ==
    \A p \in Procs : \A n \in 1..MaxInputs : Cardinality(Copies(p, n)) <= 1

\* C15: every message id a process has allocated has its record in the unack
\* list or its acknowledgement in has_acknowledged; and while ack_handler is
\* inside its with block, its own last statement is the only one that changes
\* the list.
UnackListIntegrity ==
    /\ [](\A p \in Procs : \A id \in 1..message_id_counter[p] :
            \E d \in Procs : InUnack(p, d, id) \/ <<d, id>> \in has_acknowledged[p])
    /\ [][\A p \in Procs :
            (mutex[p] # Free /\ unack_messages'[p] # unack_messages[p]) =>
                (last'.op = "ack_handler_release" /\ last'.p = p)
       ]_vars

\* ack_handler is between its loop and its last statement, with a record
\* kept, while user_input_handler is inside multicast with a copy to send.
UnackListIntegrityWitness ==
    \E p \in Procs :
        /\ mutex[p] = "ack_handler"
        /\ scanned[p].done /\ scanned[p].new # <<>>
        /\ multicasting[p] # Idle

\* C19: a mutex that is held is released, and a user_input_handler that is
\* inside multicast comes out of it.
NoDeadlockOnMutex ==
    \A p \in Procs :
        /\ (mutex[p] # Free) ~> (mutex[p] = Free)
        /\ (multicasting[p] # Idle) ~> (multicasting[p] = Idle)

\* ack_handler has just sent a message again, inside its with block.
NoDeadlockOnMutexWitness ==
    /\ last.op = "ack_handler"
    /\ last.sent # {}
    /\ mutex[last.p] = "ack_handler"

\* C16: a step that receives an acknowledgement A adds (sender, id) of A to
\* has_acknowledged of the receiver, hands unicast_send nothing, puts nothing
\* in a queue and changes nothing else of any process; no step that receives
\* a datagram allocates a message id or changes an unack list; and what
\* ack_handler sends again is never an acknowledgement.
AcknowledgementInert ==
    [][/\ last'.op = "unicast_receive" =>
             /\ message_id_counter' = message_id_counter
             /\ unack_messages' = unack_messages
             /\ \A X \in last'.sent : X.is_ack
             /\ \A p \in Procs : \A A \in queue[p] \ queue'[p] :
                   A.is_ack =>
                       /\ last'.p = A.dest
                       /\ has_acknowledged' =
                             [has_acknowledged EXCEPT
                                 ![A.dest] = has_acknowledged[A.dest]
                                                \cup {<<A.sender, A.msg_id>>}]
                       /\ last'.sent = {}
                       /\ queue' = [queue EXCEPT ![p] = queue[p] \ {A}]
                       /\ UNCHANGED <<my_timestamp, holdback_queue, has_received,
                                      delivered>>
       /\ last'.op \in {"ack_handler", "multicast"} => \A X \in last'.sent : ~X.is_ack
      ]_vars

\* A process has just received an acknowledgement from another process
\* while it holds back a message.
AcknowledgementInertWitness ==
    /\ last.op = "unicast_receive"
    /\ last.sent = {}
    /\ \E key \in has_acknowledged[last.p] : key[1] # last.p
    /\ holdback_queue[last.p] # <<>>

\* The places of the holdback queue of p that hold a message of p itself.
OwnHeld(p) == {k \in 1..Len(holdback_queue[p]) : holdback_queue[p][k][1] = p}

\* C17: a process never calls deliver for a message of its own; each of its
\* own messages it has received is in its holdback queue, with T[me] at most
\* V[me]; so its holdback queue is not empty once it has received one.
SelfCopiesNeverReleased ==
    \A p \in Procs :
        /\ \A k \in 1..Len(delivered[p]) : delivered[p][k].sender # p
        /\ Cardinality(OwnHeld(p)) = Cardinality({key \in has_received[p] : key[1] = p})
        /\ \A k \in OwnHeld(p) :
              /\ holdback_queue[p][k][2][p] <= my_timestamp[p][p]
              /\ ~should_remove(my_timestamp[p], holdback_queue[p][k])
        /\ (\E key \in has_received[p] : key[1] = p) => holdback_queue[p] # <<>>

\* A process holds back its own message, which it has acknowledged to
\* itself, and has delivered a message of another process since it read its
\* own line.
SelfCopiesNeverReleasedWitness ==
    \E p \in Procs :
        /\ OwnHeld(p) # {}
        /\ \E key \in has_acknowledged[p] : key[1] = p
        /\ Len(seen[p]) > 0
        /\ Len(delivered[p]) > seen[p][1]

MainTreatsUnseenAsNew ==
    [][last'.op = "process_message_in" =>
          \A q \in Procs : \A X \in queue[q] \ queue'[q] :
              ~X.is_ack =>
                  LET p == last'.p
                      key == <<X.sender, X.msg_id>>
                  IN /\ \E A \in last'.sent :
                           A.is_ack /\ A.dest = X.sender /\ A.msg_id = X.msg_id
                     /\ IF key \notin has_received[p]
                        THEN /\ key \in has_received'[p]
                             /\ delivered'[p] =
                                   Append(delivered[p],
                                          [sender |-> X.sender, message |-> X.message])
                        ELSE delivered'[p] = delivered[p]
      ]_vars

====
